---- MODULE Spec2Model ----
(***************************************************************************)
(* Model of the Pusher websocket client of client.go: the session          *)
(* (Connect / Disconnect / NotifyClose), the read loop (listen), the       *)
(* heartbeat loop, the event router (Bind / Unbind) and the channel        *)
(* registry (Subscribe / Unsubscribe).                                     *)
(*                                                                         *)
(* Execution contexts: process 0 is the caller that runs Disconnect        *)
(* explicitly; every successful Connect number g spawns one read loop and  *)
(* one heartbeat loop, both named g.  Methods that hold c.mutex (or        *)
(* c.notifyMutex) for their whole body and never block inside it are one    *)
(* atomic action guarded by the lock being free; Disconnect, which sends   *)
(* on caller-owned channels while holding both locks, is several steps.    *)
(***************************************************************************)
EXTENDS Integers, Sequences, FiniteSets, TLC

\* ---------------------------------------------------------------- bounds
MaxConnects == 2      \* Connect calls made on the client
MaxListeners == 2     \* NotifyClose registrations
MaxReads == 2         \* envelopes a read loop reads over the client's life
MaxBinds == 2         \* Bind calls
MaxSubCalls == 2      \* Client.Subscribe calls
MaxSends == 1         \* SendEvent calls (outbound traffic)
ErrorsCap == 1        \* capacity of the caller's Errors channel

G == 1..MaxConnects            \* goroutine pairs, one per successful Connect
User == 0                      \* the caller running Disconnect explicitly
Procs == {User} \cup G
Listeners == 1..MaxListeners   \* close-notification channels, in order of registration
NoLock == -1

\* ------------------------------------------------- protocol event names
pusherPing == "pusher:ping"
pusherPong == "pusher:pong"
pusherError == "pusher:error"
pusherConnEstablished == "pusher:connection_established"
pusherSubSucceeded == "pusher:subscription_succeeded"
pusherInternalSubSucceeded == "pusher_internal:subscription_succeeded"
pusherInternalMemberAdded == "pusher_internal:member_added"
pusherInternalMemberRemoved == "pusher_internal:member_removed"

\* The protocol's own event names, which an inbound envelope can carry.
ProtocolEvents ==
  { pusherPing, pusherPong, pusherError, pusherConnEstablished, pusherSubSucceeded,
    pusherInternalSubSucceeded, pusherInternalMemberAdded, pusherInternalMemberRemoved }

\* Event names a bound listener can use and the wire can carry.
UserEvents == {"foo", "bar"}
\* Channel names (the envelope's channel field; "" is a connection-level event).
ChannelNames == {"chan-a", "private-b"}

VARIABLES
  \* --- Client fields
  connected,        \* c.connected
  ws,               \* c.ws: 0 is nil, k > 0 the k-th dialled connection
  disconnectErr,    \* c.disconnectErr: "nil" or "readerr"
  closes,           \* c.closes: sequence of listeners
  errorsCh,         \* number of errors buffered in c.Errors
  mutex,            \* c.mutex: the process holding the write lock, or NoLock
  notifyMutex,      \* c.notifyMutex: the process holding it, or NoLock
  mapsMade,         \* c.boundEvents and c.subscribedChannels are non-nil maps
  boundEvents,      \* c.boundEvents: event name -> set of bound channels
  subscribedChannels, \* c.subscribedChannels: channel name -> entry (0: no entry)
  timer,            \* session g: [active, c] of the time.Timer made by Connect g
  resetCh,          \* session g: length of the activityTimerReset made by Connect g
  cur,              \* session whose timer and reset channel the Client fields hold (0: nil)
  \* --- the transport
  nDial,            \* connections dialled so far
  connClosed,       \* connections on which Close() was called
  sent,             \* envelopes written to the transport, counted by kind
  \* --- execution contexts
  pc,               \* position of the explicit Disconnect caller (0) and of read loop g
  bi,               \* index of Disconnect's range loop over c.closes
  lconn,            \* read loop g: the connection its pending Receive reads
  levent,           \* read loop g: the envelope just received
  hpc,              \* position of heartbeat loop g
  hsel,             \* heartbeat loop g: the session whose channels its select waits on
  spc,              \* Subscribe caller s: position and locals
  panicked,         \* "no", or the runtime panic that ended the program
  \* --- caller-owned channels
  lcap,             \* close listener l: channel capacity
  lbuf,             \* close listener l: values buffered
  lgot,             \* close listener l: values its owner has received
  lclosed,          \* close listener l: number of close(ch) done on it
  nListeners,       \* listeners registered so far
  nBound,           \* bound channels made by Bind so far
  pend,             \* delivery goroutines blocked on boundChan <- event, per (chan, envelope)
  dlv,              \* copies received by the owner, per (chan, envelope)
  entries,          \* channel entries created by Subscribe: [name, state]
  \* --- history
  nCalls,           \* Connect calls so far
  sessions,         \* successful Connect calls so far
  nReads,           \* envelopes read so far
  nSends,           \* SendEvent calls so far
  hist              \* what happened, recorded to state the properties

clientV   == << connected, ws, disconnectErr, closes, errorsCh >>
lockV     == << mutex, notifyMutex >>
routerV   == << boundEvents, nBound, pend, dlv >>
chanV     == << subscribedChannels, entries, spc >>
timerV    == << timer, resetCh, cur >>
netV      == << nDial, connClosed, sent >>
loopV     == << pc, bi, lconn, levent >>
hbV       == << hpc, hsel >>
listenerV == << lcap, lbuf, lgot, lclosed, nListeners >>
countV    == << nCalls, sessions, nReads, nSends >>

vars == << clientV, lockV, mapsMade, routerV, chanV, timerV, netV, loopV, hbV,
           panicked, listenerV, countV, hist >>

BoundChans == 1..MaxBinds
\* The bound channel whose owner, where a listener is left undrained, never
\* receives from it: the first one Bind makes.
Undrained == 1
EnvIds == 1..MaxReads
Subscribers == 1..2
EntryIds == 1..MaxSubCalls

\* Event names on the wire and in Bind.
EventNames == UserEvents \cup ProtocolEvents

NoEvent == [id |-> 0, event |-> "", channel |-> "", clean |-> FALSE]
\* A Subscribe call: its position, its locals, and whether no Unsubscribe of its
\* name ran since it began.
NoCall == [pc |-> "idle", name |-> "", ch |-> 0, clean |-> TRUE]
NoConnect == [in |-> [dial |-> FALSE, read |-> FALSE, event |-> "", decodable |-> FALSE],
              result |-> "none", was |-> FALSE]

EmptyBound == [e \in EventNames |-> {}]
EmptyChannels == [n \in ChannelNames |-> 0]

\* ------------------------------------------------------------------ Init
\* The zero Client: nothing dialled, no maps, no goroutines.
Init ==
  /\ connected = FALSE
  /\ ws = 0
  /\ disconnectErr = "nil"
  /\ closes = << >>
  /\ errorsCh = 0
  /\ mutex = NoLock
  /\ notifyMutex = NoLock
  /\ mapsMade = FALSE
  /\ boundEvents = EmptyBound
  /\ subscribedChannels = EmptyChannels
  /\ timer = [g \in G |-> [active |-> FALSE, c |-> 0]]
  /\ resetCh = [g \in G |-> 0]
  /\ cur = 0
  /\ nDial = 0
  /\ connClosed = {}
  /\ sent = [ping |-> 0, pong |-> 0, subscribe |-> 0, unsubscribe |-> 0, event |-> 0]
  /\ pc = [p \in Procs |-> IF p = User THEN "idle" ELSE "unborn"]
  /\ bi = 0
  /\ lconn = [g \in G |-> 0]
  /\ levent = [g \in G |-> NoEvent]
  /\ hpc = [g \in G |-> "unborn"]
  /\ hsel = [g \in G |-> 0]
  /\ spc = [s \in Subscribers |-> NoCall]
  /\ panicked = "no"
  /\ lcap = [l \in Listeners |-> 0]
  /\ lbuf = [l \in Listeners |-> << >>]
  /\ lgot = [l \in Listeners |-> << >>]
  /\ lclosed = [l \in Listeners |-> 0]
  /\ nListeners = 0
  /\ nBound = 0
  /\ pend = [b \in BoundChans |-> [i \in EnvIds |-> 0]]
  /\ dlv = [b \in BoundChans |-> [i \in EnvIds |-> 0]]
  /\ entries = << >>
  /\ nCalls = 0
  /\ sessions = 0
  /\ nReads = 0
  /\ nSends = 0
  /\ hist = [ nUp |-> 0, nDown |-> 0,
              lastConnect |-> NoConnect,
              failSeen |-> FALSE, atFail |-> {},
              note |-> [l \in Listeners |-> << >>],
              broadcasts |-> 0,
              unbound |-> [e \in EventNames |-> FALSE],
              envName |-> [i \in EnvIds |-> ""],
              boundAt |-> [i \in EnvIds |-> {}],
              dispatched |-> {}, cleanAt |-> {},
              handled |-> {},
              subCalls |-> 0,
              regd |-> [n \in ChannelNames |-> {}],
              returned |-> [n \in ChannelNames |-> {}],
              failedRet |-> [n \in ChannelNames |-> 0],
              lastUnsub |-> [name |-> "", found |-> FALSE, err |-> "nil"],
              fires |-> [g \in G |-> 0],
              pings |-> [g \in G |-> 0],
              sessFires |-> 0, sessPings |-> 0,
              removed |-> [n \in ChannelNames |-> FALSE],
              removedSubscribed |-> FALSE, lateDispatch |-> {},
              explicitClosed |-> {}, closedErr |-> [g \in G |-> FALSE],
              early |-> [g \in G |-> FALSE],
              req |-> 0, acc |-> 0, takes |-> 0, restarts |-> 0 ]

\* The program has not panicked.
Running == panicked = "no"

\* =============================================================== session

\* The handshake inputs Connect can meet: the dial fails, the first read fails,
\* or the first envelope is read, with a payload that decodes or does not.
HandshakeInputs ==
  { [dial |-> FALSE, read |-> FALSE, event |-> "", decodable |-> FALSE],
    [dial |-> TRUE, read |-> FALSE, event |-> "", decodable |-> FALSE] }
  \cup { [dial |-> TRUE, read |-> TRUE, event |-> e, decodable |-> d] :
           e \in {pusherError, pusherConnEstablished, pusherPing}, d \in BOOLEAN }

ConnectResultLax(in) ==
  IF ~in.dial THEN "dial error"
  ELSE IF ~in.read THEN "read error"
  ELSE IF in.event = pusherError THEN "protocol error"
  ELSE IF in.decodable THEN "ok" ELSE "decode error"

\* What Connect returns: the switch on the first envelope's event name.
ConnectResult(in) ==
  IF ~in.dial THEN "dial error"
  ELSE IF ~in.read THEN "read error"
  ELSE IF in.event = pusherError THEN "protocol error"
  ELSE IF in.event = pusherConnEstablished
       THEN (IF in.decodable THEN "ok" ELSE "decode error")
       ELSE "unknown event type"

HandshakeConnectedEarly(in, old) == IF in.dial /\ in.read THEN TRUE ELSE old

\* c.connected after Connect: set only in the connection-established branch.
HandshakeConnected(in, old) == IF ConnectResult(in) = "ok" THEN TRUE ELSE old

\* Connect: holds c.mutex for the whole call.
Connect(in) ==
  /\ Running
  /\ mutex = NoLock
  /\ nCalls < MaxConnects
  /\ nCalls' = nCalls + 1
  /\ ws' = IF in.dial THEN nDial + 1 ELSE 0
  /\ nDial' = IF in.dial THEN nDial + 1 ELSE nDial
  /\ connected' = HandshakeConnected(in, connected)
  /\ LET ok == ConnectResult(in) = "ok"
         g == sessions + 1
     IN  /\ hist' = [hist EXCEPT
                  !.lastConnect = [in |-> in, result |-> ConnectResult(in), was |-> connected],
                  !.nUp = IF ~connected /\ connected' THEN @ + 1 ELSE @,
                  !.failSeen = IF ok THEN FALSE ELSE @,
                  !.regd = IF ok THEN [n \in ChannelNames |-> {}] ELSE @,
                  !.returned = IF ok THEN [n \in ChannelNames |-> {}] ELSE @,
                  !.failedRet = IF ok THEN [n \in ChannelNames |-> 0] ELSE @,
                  !.removed = IF ok THEN [n \in ChannelNames |-> FALSE] ELSE @,
                  !.sessFires = IF ok THEN 0 ELSE @,
                  !.sessPings = IF ok THEN 0 ELSE @]
         /\ IF ok
            THEN /\ sessions' = g
                 /\ timer' = [timer EXCEPT ![g] = [active |-> TRUE, c |-> 0]]
                 /\ resetCh' = [resetCh EXCEPT ![g] = 0]
                 /\ cur' = g
                 /\ mapsMade' = TRUE
                 /\ boundEvents' = EmptyBound
                 /\ subscribedChannels' = EmptyChannels
                 /\ disconnectErr' = "nil"
                 /\ hpc' = [hpc EXCEPT ![g] = "top"]
                 /\ pc' = [pc EXCEPT ![g] = "top"]
            ELSE UNCHANGED << sessions, timerV, mapsMade, boundEvents,
                              subscribedChannels, disconnectErr, hpc, pc >>
  /\ UNCHANGED << closes, errorsCh, lockV, nBound, pend, dlv, entries, spc,
                  connClosed, sent, bi, lconn, levent, hsel, panicked,
                  listenerV, nReads, nSends >>

\* NotifyClose: appends a channel the caller made for this registration.
NotifyClose(cap) ==
  /\ Running
  /\ notifyMutex = NoLock
  /\ nListeners < MaxListeners
  /\ nListeners' = nListeners + 1
  /\ lcap' = [lcap EXCEPT ![nListeners + 1] = cap]
  /\ closes' = Append(closes, nListeners + 1)
  /\ UNCHANGED << connected, ws, disconnectErr, errorsCh, lockV, mapsMade, routerV,
                  chanV, timerV, netV, loopV, hbV, panicked, lbuf, lgot, lclosed,
                  countV, hist >>

\* The owner of close listener l receives a buffered value.
ListenerRecv(l) ==
  /\ Running
  /\ lbuf[l] # << >>
  /\ lgot' = [lgot EXCEPT ![l] = Append(@, Head(lbuf[l]))]
  /\ lbuf' = [lbuf EXCEPT ![l] = Tail(@)]
  /\ UNCHANGED << clientV, lockV, mapsMade, routerV, chanV, timerV, netV, loopV, hbV,
                  panicked, lcap, lclosed, nListeners, countV, hist >>

\* ------------------------------------------------------------ Disconnect
\* p is about to call Disconnect: the caller, or read loop p after a read failure.
AtDisconnect(p) == IF p = User THEN pc[p] = "idle" ELSE pc[p] = "disc"

\* Where p continues when Disconnect returns.
AfterDisconnect(p) == IF p = User THEN "idle" ELSE "exit"

\* c.mutex.Lock(); c.connected = false
DisconnectLock(p) ==
  /\ Running
  /\ AtDisconnect(p)
  /\ mutex = NoLock
  /\ mutex' = p
  /\ connected' = FALSE
  /\ pc' = [pc EXCEPT ![p] = "nlock"]
  /\ hist' = [hist EXCEPT !.nDown = IF connected THEN @ + 1 ELSE @]
  /\ UNCHANGED << ws, disconnectErr, closes, errorsCh, notifyMutex, mapsMade, routerV,
                  chanV, timerV, netV, bi, lconn, levent, hbV, panicked, listenerV,
                  countV >>

\* c.notifyMutex.Lock(); the range loop starts
DisconnectNotifyLock(p) ==
  /\ Running
  /\ pc[p] = "nlock"
  /\ notifyMutex = NoLock
  /\ notifyMutex' = p
  /\ bi' = 1
  /\ pc' = [pc EXCEPT ![p] = "loop"]
  /\ UNCHANGED << clientV, mutex, mapsMade, routerV, chanV, timerV, netV, lconn,
                  levent, hbV, panicked, listenerV, countV, hist >>

\* The value sent to a listener: the wrapped cause, or nil.
NotifyValue(err) == IF err # "nil" THEN "wrapped" ELSE "nil"

CanAcceptIfBuffered(l) == Len(lbuf[l]) < lcap[l]

\* ch <- value can complete: the owner of an unbuffered listener receives it,
\* a buffered listener has a free slot.
CanAccept(l) == lcap[l] = 0 \/ Len(lbuf[l]) < lcap[l]

\* One iteration of the loop: ch <- value (blocking), then close(ch).  A send on
\* a closed channel panics.  An unbuffered channel takes the value when its
\* owner receives it; a buffered one when it has a free slot.
DisconnectNotify(p) ==
  /\ Running
  /\ pc[p] = "loop"
  /\ bi <= Len(closes)
  /\ LET l == closes[bi]
         v == NotifyValue(disconnectErr)
     IN  IF lclosed[l] > 0
         THEN /\ panicked' = "send on closed channel"
              /\ UNCHANGED << bi, lbuf, lgot, lclosed, hist >>
         ELSE /\ CanAccept(l)
              /\ IF lcap[l] = 0
                 THEN lgot' = [lgot EXCEPT ![l] = Append(@, v)] /\ UNCHANGED lbuf
                 ELSE lbuf' = [lbuf EXCEPT ![l] = Append(@, v)] /\ UNCHANGED lgot
              /\ lclosed' = [lclosed EXCEPT ![l] = @ + 1]
              /\ bi' = bi + 1
              /\ hist' = [hist EXCEPT !.note[l] =
                            Append(@, [val |-> v, explicit |-> (p = User),
                                       fail |-> hist.failSeen])]
              /\ UNCHANGED panicked
  /\ UNCHANGED << clientV, lockV, mapsMade, routerV, chanV, timerV, netV, pc, lconn,
                  levent, hbV, lcap, nListeners, countV >>

ClosesKept(cl) == cl

\* c.closes = c.closes[:0]
ClosesAfterBroadcast(cl) == << >>

\* After the loop: truncate c.closes, close the transport, release both locks.
DisconnectFinish(p) ==
  /\ Running
  /\ pc[p] = "loop"
  /\ bi > Len(closes)
  /\ closes' = ClosesAfterBroadcast(closes)
  /\ connClosed' = IF ws # 0 THEN connClosed \cup {ws} ELSE connClosed
  /\ mutex' = NoLock
  /\ notifyMutex' = NoLock
  /\ bi' = 0
  /\ pc' = [pc EXCEPT ![p] = AfterDisconnect(p)]
  /\ hist' = [hist EXCEPT !.broadcasts = IF @ < 2 THEN @ + 1 ELSE @,
                          !.explicitClosed = IF p = User /\ ws # 0
                                             THEN @ \cup {ws} ELSE @]
  /\ UNCHANGED << connected, ws, disconnectErr, errorsCh, mapsMade, routerV, chanV,
                  timerV, nDial, sent, lconn, levent, hbV, panicked, listenerV, countV >>

\* ============================================================= read loop

\* Range of a sequence.
Range(q) == { q[i] : i \in 1..Len(q) }

\* c.subscribedChannels[name]; a name that is no key yields no entry.
Lookup(n) == IF n \in ChannelNames THEN subscribedChannels[n] ELSE 0

\* sendError: a non-blocking send on c.Errors.
SendError(n) == IF n < ErrorsCap THEN n + 1 ELSE n

RequestResetQueued(rc) == IF cur # 0 THEN [rc EXCEPT ![cur] = @ + 1] ELSE rc

\* resetActivityTimer: a non-blocking send on c.activityTimerReset (capacity 1).
RequestReset(rc) == IF cur # 0 THEN [rc EXCEPT ![cur] = 1] ELSE rc

\* The history of a reset request: it is counted, it is accepted when the
\* channel had room, and an accepted request is early when the timer it is
\* made on was still running.
NoteRequest(h) ==
  IF cur = 0 THEN h
  ELSE [h EXCEPT !.req = @ + 1,
                 !.acc = IF resetCh[cur] = 0 THEN @ + 1 ELSE @,
                 !.early[cur] = IF resetCh[cur] = 0 THEN timer[cur].active ELSE @]

\* for c.isConnected() {
ListenTop(g) ==
  /\ Running
  /\ pc[g] = "top"
  /\ mutex = NoLock
  /\ pc' = [pc EXCEPT ![g] = IF connected THEN "recv" ELSE "exit"]
  /\ UNCHANGED << clientV, lockV, mapsMade, routerV, chanV, timerV, netV, bi, lconn,
                  levent, hbV, panicked, listenerV, countV, hist >>

\* c.ws.SetReadDeadline(...); Receive(c.ws, &event) starts: c.ws is read without
\* the lock, and a nil c.ws is dereferenced.
ListenReceiveStart(g) ==
  /\ Running
  /\ pc[g] = "recv"
  /\ IF ws = 0
     THEN panicked' = "nil pointer dereference" /\ UNCHANGED << pc, lconn >>
     ELSE /\ lconn' = [lconn EXCEPT ![g] = ws]
          /\ pc' = [pc EXCEPT ![g] = "wait"]
          /\ UNCHANGED panicked
  /\ UNCHANGED << clientV, lockV, mapsMade, routerV, chanV, timerV, netV, bi,
                  levent, hbV, listenerV, countV, hist >>

\* Receive returns an envelope read from an open connection.
ListenReceiveEnvelope(g, ev, ch) ==
  /\ Running
  /\ pc[g] = "wait"
  /\ lconn[g] \notin connClosed
  /\ nReads < MaxReads
  /\ nReads' = nReads + 1
  /\ levent' = [levent EXCEPT ![g] = [id |-> nReads + 1, event |-> ev, channel |-> ch,
                                      clean |-> hist.unbound[ev]]]
  /\ hist' = [hist EXCEPT !.envName[nReads + 1] = ev]
  /\ pc' = [pc EXCEPT ![g] = "reset"]
  /\ UNCHANGED << clientV, lockV, mapsMade, routerV, chanV, timerV, netV, bi, lconn,
                  hbV, panicked, listenerV, nCalls, sessions, nSends >>

\* Receive returns an error: the connection was closed, the deadline passed or
\* the network failed.
ListenReceiveError(g) ==
  /\ Running
  /\ pc[g] = "wait"
  /\ pc' = [pc EXCEPT ![g] = "chk"]
  /\ hist' = [hist EXCEPT !.closedErr[g] = lconn[g] \in hist.explicitClosed]
  /\ UNCHANGED << clientV, lockV, mapsMade, routerV, chanV, timerV, netV, bi, lconn,
                  levent, hbV, panicked, listenerV, countV >>

\* if !c.isConnected() { return }
ListenCheck(g) ==
  /\ Running
  /\ pc[g] = "chk"
  /\ mutex = NoLock
  /\ pc' = [pc EXCEPT ![g] = IF connected THEN "fail" ELSE "exit"]
  /\ hist' = IF connected
             THEN [hist EXCEPT !.failSeen = TRUE, !.atFail = @ \cup Range(closes)]
             ELSE hist
  /\ UNCHANGED << clientV, lockV, mapsMade, routerV, chanV, timerV, netV, bi, lconn,
                  levent, hbV, panicked, listenerV, countV >>

\* c.sendError(err); c.disconnectErr = err   (written without the lock)
ListenFail(g) ==
  /\ Running
  /\ pc[g] = "fail"
  /\ errorsCh' = SendError(errorsCh)
  /\ disconnectErr' = "readerr"
  /\ pc' = [pc EXCEPT ![g] = "disc"]
  /\ UNCHANGED << connected, ws, closes, lockV, mapsMade, routerV, chanV, timerV,
                  netV, bi, lconn, levent, hbV, panicked, listenerV, countV, hist >>

\* c.resetActivityTimer()
ListenReset(g) ==
  /\ Running
  /\ pc[g] = "reset"
  /\ resetCh' = RequestReset(resetCh)
  /\ hist' = NoteRequest(hist)
  /\ pc' = [pc EXCEPT ![g] = "dispatch"]
  /\ UNCHANGED << clientV, lockV, mapsMade, routerV, chanV, timer, cur, netV, bi,
                  lconn, levent, hbV, panicked, listenerV, countV >>

SpawnedForUndrained(ev) == boundEvents[ev] \cap {Undrained}

SpawnedFirstOnly(ev) ==
  IF boundEvents[ev] = {} THEN {}
  ELSE { CHOOSE b \in boundEvents[ev] : \A x \in boundEvents[ev] : b <= x }

\* The bound channels a delivery goroutine is started for.
Spawned(ev) == boundEvents[ev]

\* channel.handleEvent: the internal subscription-succeeded envelope makes the
\* entry subscribed; any other envelope leaves its state.
HandleEvent(e, ev) ==
  IF ev = pusherInternalSubSucceeded THEN [e EXCEPT !.state = "subscribed"] ELSE e

\* switch event.Event { ... }
ListenDispatch(g) ==
  /\ Running
  /\ pc[g] = "dispatch"
  /\ LET ev == levent[g].event
         id == levent[g].id
         sub == Lookup(levent[g].channel)
     IN  CASE ev = pusherPing ->
                /\ IF ws = 0
                   THEN panicked' = "nil pointer dereference" /\ UNCHANGED sent
                   ELSE sent' = [sent EXCEPT !.pong = @ + 1] /\ UNCHANGED panicked
                /\ UNCHANGED << errorsCh, pend, entries, hist >>
           [] ev = pusherPong ->
                UNCHANGED << errorsCh, pend, entries, hist, sent, panicked >>
           [] ev = pusherError ->
                /\ errorsCh' = SendError(errorsCh)
                /\ UNCHANGED << pend, entries, hist, sent, panicked >>
           [] OTHER ->
                /\ mutex = NoLock
                /\ pend' = [b \in BoundChans |->
                              IF b \in Spawned(ev) THEN [pend[b] EXCEPT ![id] = @ + 1]
                              ELSE pend[b]]
                /\ entries' = IF sub # 0
                              THEN [entries EXCEPT ![sub] = HandleEvent(@, ev)]
                              ELSE entries
                /\ hist' = [hist EXCEPT
                              !.boundAt[id] = boundEvents[ev],
                              !.dispatched = @ \cup {id},
                              !.cleanAt = IF levent[g].clean THEN @ \cup {id} ELSE @,
                              !.handled = IF sub # 0 THEN @ \cup {<< sub, id >>} ELSE @,
                              !.lateDispatch =
                                 IF levent[g].channel \in ChannelNames
                                    /\ hist.removed[levent[g].channel]
                                 THEN @ \cup {id} ELSE @]
                /\ UNCHANGED << errorsCh, sent, panicked >>
  /\ pc' = [pc EXCEPT ![g] = IF panicked' = "no" THEN "top" ELSE @]
  /\ UNCHANGED << connected, ws, disconnectErr, closes, lockV, mapsMade, boundEvents,
                  nBound, dlv, subscribedChannels, spc, timerV, nDial, connClosed, bi,
                  lconn, levent, hbV, listenerV, countV >>

\* ================================================================ router

\* c.boundEvents[event][boundChan] = struct{}{}
BindAdd(be, e, b) == [be EXCEPT ![e] = @ \cup {b}]

\* Bind: makes a channel and adds it to the set of the event.
Bind(e) ==
  /\ Running
  /\ mutex = NoLock
  /\ nBound < MaxBinds
  /\ IF ~mapsMade
     THEN /\ panicked' = "assignment to entry in nil map"
          /\ UNCHANGED << boundEvents, nBound, levent, hist >>
     ELSE /\ boundEvents' = BindAdd(boundEvents, e, nBound + 1)
          /\ nBound' = nBound + 1
          /\ levent' = [g \in G |-> IF levent[g].event = e
                                    THEN [levent[g] EXCEPT !.clean = FALSE]
                                    ELSE levent[g]]
          /\ hist' = [hist EXCEPT !.unbound[e] = FALSE]
          /\ UNCHANGED panicked
  /\ UNCHANGED << clientV, lockV, mapsMade, pend, dlv, chanV, timerV, netV, pc, bi,
                  lconn, hbV, listenerV, countV >>

UnbindKeep(be, e, chans) == [be EXCEPT ![e] = @ \ chans]

\* Unbind: with no channels the key is deleted, else the channels are removed.
UnbindResult(be, e, chans) ==
  IF chans = {} THEN [be EXCEPT ![e] = {}] ELSE [be EXCEPT ![e] = @ \ chans]

Unbind(e, chans) ==
  /\ Running
  /\ mutex = NoLock
  /\ boundEvents' = UnbindResult(boundEvents, e, chans)
  /\ hist' = IF chans = {} THEN [hist EXCEPT !.unbound[e] = TRUE] ELSE hist
  /\ UNCHANGED << clientV, lockV, mapsMade, nBound, pend, dlv, chanV, timerV, netV,
                  loopV, hbV, panicked, listenerV, countV >>

\* The owner of bound channel b receives the copy one delivery goroutine holds.
BoundRecv(b, i) ==
  /\ Running
  /\ pend[b][i] > 0
  /\ pend' = [pend EXCEPT ![b][i] = @ - 1]
  /\ dlv' = [dlv EXCEPT ![b][i] = @ + 1]
  /\ UNCHANGED << clientV, lockV, mapsMade, boundEvents, nBound, chanV, timerV, netV,
                  loopV, hbV, panicked, listenerV, countV, hist >>

\* SendEvent: marshal, request a timer reset, write to the transport.
SendEvent(marshalOk) ==
  /\ Running
  /\ nSends < MaxSends
  /\ nSends' = nSends + 1
  /\ IF ~marshalOk
     THEN UNCHANGED << resetCh, sent, panicked, hist >>
     ELSE /\ resetCh' = RequestReset(resetCh)
          /\ hist' = NoteRequest(hist)
          /\ IF ws = 0
             THEN panicked' = "nil pointer dereference" /\ UNCHANGED sent
             ELSE /\ sent' = IF ws \in connClosed THEN sent
                             ELSE [sent EXCEPT !.event = @ + 1]
                  /\ UNCHANGED panicked
  /\ UNCHANGED << clientV, lockV, mapsMade, routerV, chanV, timer, cur, nDial,
                  connClosed, loopV, hbV, listenerV, nCalls, sessions, nReads >>

\* ====================================================== channel registry

\* The entry variant chosen from the name's prefix.
VariantOf(n) == IF n = "private-b" THEN "private" ELSE "public"

\* The entry Subscribe constructs for a name.
NewEntry(n) == [name |-> n, variant |-> VariantOf(n), state |-> "unsubscribed"]

\* Subscribe, first part: the lookup under the read lock.
SubscribeLookup(s, n) ==
  /\ Running
  /\ spc[s].pc = "idle"
  /\ hist.subCalls < MaxSubCalls
  /\ mutex = NoLock
  /\ spc' = [spc EXCEPT ![s] = [pc |-> IF Lookup(n) # 0 THEN "sub" ELSE "create",
                                name |-> n, ch |-> Lookup(n), clean |-> TRUE]]
  /\ hist' = [hist EXCEPT !.subCalls = @ + 1, !.removed[n] = FALSE]
  /\ UNCHANGED << clientV, lockV, mapsMade, routerV, subscribedChannels, entries,
                  timerV, netV, loopV, hbV, panicked, listenerV, countV >>

\* Subscribe, second part, when the lookup found nothing: a new entry is made
\* and stored under the write lock.
SubscribeRegister(s) ==
  /\ Running
  /\ spc[s].pc = "create"
  /\ mutex = NoLock
  /\ IF ~mapsMade
     THEN /\ panicked' = "assignment to entry in nil map"
          /\ UNCHANGED << entries, subscribedChannels, spc, hist >>
     ELSE /\ entries' = Append(entries, NewEntry(spc[s].name))
          /\ subscribedChannels' =
               [subscribedChannels EXCEPT ![spc[s].name] = Len(entries) + 1]
          /\ spc' = [spc EXCEPT ![s].pc = "sub", ![s].ch = Len(entries) + 1]
          /\ hist' = IF spc[s].clean
                     THEN [hist EXCEPT !.regd[spc[s].name] = @ \cup {Len(entries) + 1},
                                       !.removed[spc[s].name] = FALSE]
                     ELSE [hist EXCEPT !.removed[spc[s].name] = FALSE]
          /\ UNCHANGED panicked
  /\ UNCHANGED << clientV, lockV, mapsMade, routerV, timerV, netV, loopV, hbV,
                  listenerV, countV >>

\* Subscribe, last part: return ch, ch.Subscribe(opts...).  The entry's own
\* Subscribe authenticates where needed and sends the subscribe envelope, or
\* fails.
SubscribeFinish(s, ok) ==
  /\ Running
  /\ spc[s].pc = "sub"
  /\ LET n == spc[s].name
         e == spc[s].ch
     IN  /\ entries' = [entries EXCEPT ![e].state =
                          IF @ = "subscribed" THEN @ ELSE "subscribing"]
         /\ sent' = IF ok /\ entries[e].state # "subscribed"
                    THEN [sent EXCEPT !.subscribe = @ + 1] ELSE sent
         /\ resetCh' = IF ok /\ entries[e].state # "subscribed"
                       THEN RequestReset(resetCh) ELSE resetCh
         /\ LET h == IF ok /\ entries[e].state # "subscribed"
                     THEN NoteRequest(hist) ELSE hist
            IN  hist' = IF spc[s].clean
                        THEN [h EXCEPT !.returned[n] = @ \cup {e},
                                       !.failedRet[n] = IF ok THEN @ ELSE e]
                        ELSE h
  /\ spc' = [spc EXCEPT ![s] = NoCall]
  /\ UNCHANGED << clientV, lockV, mapsMade, routerV, subscribedChannels, timer, cur,
                  nDial, connClosed, loopV, hbV, panicked, listenerV, countV >>

DeletedUnlessSubscribed(sc, n) ==
  IF entries[sc[n]].state = "subscribed" THEN sc ELSE [sc EXCEPT ![n] = 0]

\* delete(c.subscribedChannels, channelName)
Deleted(sc, n) == [sc EXCEPT ![n] = 0]

UnsubscribeEager(n, ok) ==
  /\ Running
  /\ mutex = NoLock
  /\ subscribedChannels' = IF Lookup(n) # 0
                           THEN [subscribedChannels EXCEPT ![n] = 0]
                           ELSE subscribedChannels
  /\ entries' = IF Lookup(n) # 0
                THEN [entries EXCEPT ![Lookup(n)].state = "unsubscribed"] ELSE entries
  /\ sent' = IF ok THEN [sent EXCEPT !.unsubscribe = @ + 1] ELSE sent
  /\ resetCh' = IF ok THEN RequestReset(resetCh) ELSE resetCh
  /\ hist' = [(IF ok THEN NoteRequest(hist) ELSE hist) EXCEPT
                !.lastUnsub = [name |-> n, found |-> Lookup(n) # 0,
                               err |-> IF ok THEN "nil" ELSE "send error"],
                !.regd[n] = {}, !.returned[n] = {}, !.failedRet[n] = 0]
  /\ spc' = [s \in Subscribers |->
               IF spc[s].name = n THEN [spc[s] EXCEPT !.clean = FALSE] ELSE spc[s]]
  /\ UNCHANGED << clientV, lockV, mapsMade, routerV, timer, cur, nDial,
                  connClosed, loopV, hbV, panicked, listenerV, countV >>

\* Unsubscribe: no entry, no effect; else the entry is deleted and its own
\* Unsubscribe sends the unsubscribe envelope (ok) or fails to.
Unsubscribe(n, ok) ==
  /\ Running
  /\ mutex = NoLock
  /\ IF Lookup(n) = 0
     THEN /\ hist' = [hist EXCEPT
                        !.lastUnsub = [name |-> n, found |-> FALSE, err |-> "nil"]]
          /\ UNCHANGED << subscribedChannels, entries, sent, resetCh >>
     ELSE /\ subscribedChannels' = Deleted(subscribedChannels, n)
          /\ entries' = [entries EXCEPT ![Lookup(n)].state = "unsubscribed"]
          /\ sent' = IF ok THEN [sent EXCEPT !.unsubscribe = @ + 1] ELSE sent
          /\ resetCh' = IF ok THEN RequestReset(resetCh) ELSE resetCh
          /\ hist' = [(IF ok THEN NoteRequest(hist) ELSE hist) EXCEPT
                        !.lastUnsub = [name |-> n, found |-> TRUE,
                                       err |-> IF ok THEN "nil" ELSE "send error"],
                        !.removed[n] = TRUE,
                        !.removedSubscribed =
                           @ \/ entries[Lookup(n)].state = "subscribed",
                        !.regd[n] = {}, !.returned[n] = {}, !.failedRet[n] = 0]
  /\ spc' = [s \in Subscribers |->
               IF spc[s].name = n THEN [spc[s] EXCEPT !.clean = FALSE] ELSE spc[s]]
  /\ UNCHANGED << clientV, lockV, mapsMade, routerV, timer, cur, nDial,
                  connClosed, loopV, hbV, panicked, listenerV, countV >>

\* ============================================================= heartbeat

\* The timer's period passes: a running timer stops and puts one value in its
\* channel C (capacity 1, the send does not block).
TimerFire(k) ==
  /\ Running
  /\ timer[k].active
  /\ timer' = [timer EXCEPT ![k] = [active |-> FALSE, c |-> 1]]
  /\ hist' = [hist EXCEPT !.fires[k] = @ + 1,
                          !.sessFires = IF k = cur THEN @ + 1 ELSE @]
  /\ UNCHANGED << clientV, lockV, mapsMade, routerV, chanV, resetCh, cur, netV,
                  loopV, hbV, panicked, listenerV, countV >>

\* for c.isConnected() {
HeartbeatTop(g) ==
  /\ Running
  /\ hpc[g] = "top"
  /\ mutex = NoLock
  /\ hpc' = [hpc EXCEPT ![g] = IF connected THEN "select" ELSE "exit"]
  /\ UNCHANGED << clientV, lockV, mapsMade, routerV, chanV, timerV, netV, loopV,
                  hsel, panicked, listenerV, countV, hist >>

\* select { entered: both channel operands are read from the Client once.
HeartbeatSelect(g) ==
  /\ Running
  /\ hpc[g] = "select"
  /\ hsel' = [hsel EXCEPT ![g] = cur]
  /\ hpc' = [hpc EXCEPT ![g] = "wait"]
  /\ UNCHANGED << clientV, lockV, mapsMade, routerV, chanV, timerV, netV, loopV,
                  panicked, listenerV, countV, hist >>

\* case <-c.activityTimerReset:
HeartbeatTakeReset(g) ==
  /\ Running
  /\ hpc[g] = "wait"
  /\ resetCh[hsel[g]] = 1
  /\ resetCh' = [resetCh EXCEPT ![hsel[g]] = 0]
  /\ hpc' = [hpc EXCEPT ![g] = "stop"]
  /\ hist' = [hist EXCEPT !.takes = @ + 1, !.early[hsel[g]] = FALSE]
  /\ UNCHANGED << clientV, lockV, mapsMade, routerV, chanV, timer, cur, netV, loopV,
                  hsel, panicked, listenerV, countV >>

\* if !c.activityTimer.Stop() {
HeartbeatStop(g) ==
  /\ Running
  /\ hpc[g] = "stop"
  /\ timer' = [timer EXCEPT ![cur].active = FALSE]
  /\ hpc' = [hpc EXCEPT ![g] = IF timer[cur].active THEN "rearm" ELSE "drain"]
  /\ UNCHANGED << clientV, lockV, mapsMade, routerV, chanV, resetCh, cur, netV, loopV,
                  hsel, panicked, listenerV, countV, hist >>

DrainSkipped(t) == t

\* select { case <-c.activityTimer.C: default: }
Drained(t) == [t EXCEPT !.c = 0]

HeartbeatDrain(g) ==
  /\ Running
  /\ hpc[g] = "drain"
  /\ timer' = [timer EXCEPT ![cur] = Drained(@)]
  /\ hpc' = [hpc EXCEPT ![g] = "rearm"]
  /\ UNCHANGED << clientV, lockV, mapsMade, routerV, chanV, resetCh, cur, netV, loopV,
                  hsel, panicked, listenerV, countV, hist >>

\* c.activityTimer.Reset(c._activityTimeout)
HeartbeatRearm(g) ==
  /\ Running
  /\ hpc[g] = "rearm"
  /\ timer' = [timer EXCEPT ![cur].active = TRUE]
  /\ hpc' = [hpc EXCEPT ![g] = "top"]
  /\ hist' = [hist EXCEPT !.restarts = @ + 1]
  /\ UNCHANGED << clientV, lockV, mapsMade, routerV, chanV, resetCh, cur, netV, loopV,
                  hsel, panicked, listenerV, countV >>

TimerAfterPingRearmed(t) == [active |-> TRUE, c |-> 0]

\* The timer after its value was taken from C: it is not restarted.
TimerAfterPing(t) == [t EXCEPT !.c = 0]

\* case <-c.activityTimer.C: websocket.Message.Send(c.ws, pingPayload)
HeartbeatPing(g) ==
  /\ Running
  /\ hpc[g] = "wait"
  /\ timer[hsel[g]].c = 1
  /\ timer' = [timer EXCEPT ![hsel[g]] = TimerAfterPing(@)]
  /\ IF ws = 0
     THEN panicked' = "nil pointer dereference" /\ UNCHANGED << sent, hist, hpc >>
     ELSE /\ sent' = IF ws \in connClosed THEN sent ELSE [sent EXCEPT !.ping = @ + 1]
          /\ hist' = [hist EXCEPT !.pings[hsel[g]] = @ + 1,
                                  !.sessPings = IF connected THEN @ + 1 ELSE @]
          /\ hpc' = [hpc EXCEPT ![g] = "top"]
          /\ UNCHANGED panicked
  /\ UNCHANGED << clientV, lockV, mapsMade, routerV, chanV, resetCh, cur, nDial,
                  connClosed, loopV, hsel, listenerV, countV >>

\* ======================================================== specifications

Established == [dial |-> TRUE, read |-> TRUE, event |-> pusherConnEstablished,
                decodable |-> TRUE]
DialFailure == [dial |-> FALSE, read |-> FALSE, event |-> "", decodable |-> FALSE]
ErrorEnvelope == [dial |-> TRUE, read |-> TRUE, event |-> pusherError,
                  decodable |-> TRUE]

\* Disconnect, by the caller or by a read loop.
Disconnect(p) ==
  \/ DisconnectLock(p)
  \/ DisconnectNotifyLock(p)
  \/ DisconnectNotify(p)
  \/ DisconnectFinish(p)

\* Disconnect when no close listener is registered.
DisconnectQuiet(p) ==
  \/ DisconnectLock(p)
  \/ DisconnectNotifyLock(p)
  \/ DisconnectFinish(p)

\* The read loop g on a connection that carries no envelope: it waits in
\* Receive until Receive fails.
ListenIdle(g) ==
  \/ ListenTop(g)
  \/ ListenReceiveStart(g)
  \/ ListenReceiveError(g)
  \/ ListenCheck(g)
  \/ ListenFail(g)

\* The read loop g, reading envelopes named in evs on the channels chs.
Listen(g, evs, chs) ==
  \/ ListenIdle(g)
  \/ \E ev \in evs, ch \in chs : ListenReceiveEnvelope(g, ev, ch)
  \/ ListenReset(g)
  \/ ListenDispatch(g)

\* The heartbeat loop g.
Heartbeat(g) ==
  \/ HeartbeatTop(g)
  \/ HeartbeatSelect(g)
  \/ HeartbeatTakeReset(g)
  \/ HeartbeatStop(g)
  \/ HeartbeatDrain(g)
  \/ HeartbeatRearm(g)
  \/ HeartbeatPing(g)

\* A caller that connects only a client that is not connected: the first
\* Connect, and a Connect after a Disconnect.
ConnectFresh(in) == ~connected /\ Connect(in)

\* The session and its close listeners: Connect at any time, NotifyClose,
\* Disconnect by the caller and by the read loops.
Next ==
  \/ \E in \in {Established, DialFailure, ErrorEnvelope} : Connect(in)
  \/ \E cap \in {0, 1} : NotifyClose(cap)
  \/ \E l \in Listeners : ListenerRecv(l)
  \/ \E p \in Procs : Disconnect(p)
  \/ \E g \in G : ListenIdle(g)

Spec == Init /\ [][Next]_vars

\* The handshake: Connect on every handshake input, at any time.
HandshakeNext ==
  \/ \E in \in HandshakeInputs : Connect(in)
  \/ \E p \in Procs : DisconnectQuiet(p)
  \/ \E g \in G : ListenIdle(g)

HandshakeSpec == Init /\ [][HandshakeNext]_vars

\* The event router: Bind, Unbind, the read loop's dispatch and the deliveries.
RouterNext ==
  \/ ConnectFresh(Established)
  \/ \E g \in G : DisconnectQuiet(g)
  \/ \E g \in G : Listen(g, {"foo"}, {""})
  \/ Bind("foo")
  \/ \E chans \in SUBSET (1..nBound) : Unbind("foo", chans)
  \/ \E b \in BoundChans, i \in EnvIds : BoundRecv(b, i)

RouterSpec == Init /\ [][RouterNext]_vars

\* The channel registry: two callers of Subscribe, and Unsubscribe.
RegistryNext ==
  \/ ConnectFresh(Established)
  \/ \E s \in Subscribers, n \in ChannelNames : SubscribeLookup(s, n)
  \/ \E s \in Subscribers : SubscribeRegister(s)
  \/ \E s \in Subscribers, ok \in BOOLEAN : SubscribeFinish(s, ok)
  \/ \E n \in ChannelNames, ok \in BOOLEAN : Unsubscribe(n, ok)

RegistrySpec == Init /\ [][RegistryNext]_vars

\* The heartbeat: the timers, the heartbeat loops, and SendEvent as the
\* traffic that requests resets.
HeartbeatNext ==
  \/ ConnectFresh(Established)
  \/ DisconnectQuiet(User)
  \/ \E ok \in BOOLEAN : SendEvent(ok)
  \/ \E k \in G : TimerFire(k)
  \/ \E g \in G : Heartbeat(g)

HeartbeatSpec == Init /\ [][HeartbeatNext]_vars

\* The router on protocol envelopes: listeners bound to the protocol's own
\* event names, and a read loop that reads envelopes with those names.
ReservedNext ==
  \/ ConnectFresh(Established)
  \/ \E g \in G : DisconnectQuiet(g)
  \/ \E g \in G : Listen(g, ProtocolEvents, {""})
  \/ \E e \in ProtocolEvents : Bind(e)
  \/ \E b \in BoundChans, i \in EnvIds : BoundRecv(b, i)

ReservedSpec == Init /\ [][ReservedNext]_vars

\* The read loop g on a connection that stays up: Receive returns envelopes
\* and no error.
ListenHealthy(g, evs, chs) ==
  \/ ListenTop(g)
  \/ ListenReceiveStart(g)
  \/ \E ev \in evs, ch \in chs : ListenReceiveEnvelope(g, ev, ch)
  \/ ListenReset(g)
  \/ ListenDispatch(g)

\* The steps of the read loop that are its own (not the network's).
ListenStep(g) ==
  \/ ListenTop(g)
  \/ ListenReceiveStart(g)
  \/ ListenReset(g)
  \/ ListenDispatch(g)

\* A connected session with listeners bound to "foo" or "bar", of which the
\* first is never drained: the read loop reading envelopes named "foo", the
\* heartbeat loop, the timer and the other listeners.
StallNext ==
  \/ ConnectFresh(Established)
  \/ \E e \in UserEvents : Bind(e)
  \/ \E g \in G : ListenHealthy(g, {"foo"}, {""})
  \/ \E b \in BoundChans \ {Undrained}, i \in EnvIds : BoundRecv(b, i)
  \/ \E k \in G : TimerFire(k)
  \/ \E g \in G : Heartbeat(g)

\* The scheduler runs every goroutine that can take a step, and the owner of a
\* drained listener receives what is sent to it.
StallFairness ==
  /\ \A g \in G : WF_vars(ListenStep(g)) /\ WF_vars(Heartbeat(g))
  /\ \A b \in BoundChans \ {Undrained}, i \in EnvIds : WF_vars(BoundRecv(b, i))

StallSpec == Init /\ [][StallNext]_vars /\ StallFairness

\* The heartbeat loop g in a session with no traffic: no reset is requested.
HeartbeatIdle(g) ==
  \/ HeartbeatTop(g)
  \/ HeartbeatSelect(g)
  \/ HeartbeatPing(g)

\* The steps of Disconnect once p has called it and holds the session lock.
DisconnectRest(p) ==
  \/ DisconnectNotifyLock(p)
  \/ DisconnectFinish(p)

\* The same, with the broadcast to the close listeners.
DisconnectBroadcast(p) ==
  \/ DisconnectNotifyLock(p)
  \/ DisconnectNotify(p)
  \/ DisconnectFinish(p)

\* The end of a session with no traffic: Connect, Disconnect by the caller or
\* after a read failure, the two loops and the timer.
TerminationNext ==
  \/ ConnectFresh(Established)
  \/ \E p \in Procs : DisconnectQuiet(p)
  \/ \E g \in G : ListenIdle(g)
  \/ \E k \in G : TimerFire(k)
  \/ \E g \in G : HeartbeatIdle(g)

\* Every goroutine that can take a step takes it, a Receive returns (at the
\* read deadline at the latest), a running timer expires, and a Disconnect
\* that was called runs to its end.  Whether the caller calls Connect or
\* Disconnect is left to the caller.
TerminationFairness ==
  /\ \A g \in G : SF_vars(ListenIdle(g)) /\ SF_vars(HeartbeatIdle(g))
  /\ \A g \in G : WF_vars(TimerFire(g)) /\ SF_vars(DisconnectQuiet(g))
  /\ WF_vars(DisconnectRest(User))

TerminationSpec == Init /\ [][TerminationNext]_vars /\ TerminationFairness

\* The reset requests in a session that stays connected: outbound traffic
\* (SendEvent) and inbound traffic (the read loop, reading pong envelopes)
\* request resets, the heartbeat loop takes them.
ResetNext ==
  \/ ConnectFresh(Established)
  \/ \E ok \in BOOLEAN : SendEvent(ok)
  \/ \E g \in G : ListenHealthy(g, {pusherPong}, {""})
  \/ \E k \in G : TimerFire(k)
  \/ \E g \in G : Heartbeat(g)

ResetSpec == Init /\ [][ResetNext]_vars

\* The registry and the read loop: Subscribe, Unsubscribe, and envelopes
\* carrying the channel name "chan-a", among them the one that makes an entry
\* subscribed.
ChannelNext ==
  \/ ConnectFresh(Established)
  \/ \E s \in Subscribers, n \in ChannelNames : SubscribeLookup(s, n)
  \/ \E s \in Subscribers : SubscribeRegister(s)
  \/ \E s \in Subscribers, ok \in BOOLEAN : SubscribeFinish(s, ok)
  \/ \E n \in ChannelNames, ok \in BOOLEAN : Unsubscribe(n, ok)
  \/ \E g \in G : ListenHealthy(g, {"foo", pusherInternalSubSucceeded}, {"chan-a"})

ChannelSpec == Init /\ [][ChannelNext]_vars

\* The two locks: Connect, NotifyClose, Disconnect by the caller and by the
\* read loops, and the read loops' isConnected.  The owner of an unbuffered
\* close listener receives when Disconnect sends; the owner of a buffered one
\* need not receive at all.
LockNext ==
  \/ ConnectFresh(Established)
  \/ \E cap \in {0, 1} : NotifyClose(cap)
  \/ \E p \in Procs : Disconnect(p)
  \/ \E g \in G : ListenIdle(g)

\* A Disconnect that holds the session lock runs on whenever it can.
LockFairness == WF_vars(\E p \in Procs : DisconnectBroadcast(p))

LockSpec == Init /\ [][LockNext]_vars /\ LockFairness

\* ============================================================ properties

\* The values close listener l was sent, buffered or received.
Notified(l) == Len(lbuf[l]) + Len(lgot[l])

\* C1: every close listener is sent at most one value and closed at most once,
\* it is closed only after its value was sent, no Disconnect sends on a closed
\* listener, and whenever no broadcast is running every registered listener is
\* either still waiting in c.closes or has had its one value and its close (so
\* a repeated Disconnect finds nothing to notify again).
C1_NotifiedExactlyOnce ==
  /\ panicked # "send on closed channel"
  /\ \A l \in Listeners :
       /\ Len(hist.note[l]) <= 1
       /\ Notified(l) = Len(hist.note[l])
       /\ lclosed[l] <= 1
       /\ lclosed[l] = 1 => Notified(l) = 1
  /\ notifyMutex = NoLock =>
       \A l \in 1..nListeners : (l \in Range(closes)) # (lclosed[l] = 1 /\ Notified(l) = 1)

\* Two broadcasts have run (one of them by a read loop after a read failure),
\* and both listeners were notified once and closed.
C1_Witness ==
  /\ hist.broadcasts = 2
  /\ \E g \in G : pc[g] = "exit" /\ disconnectErr = "readerr"
  /\ \A l \in Listeners : lclosed[l] = 1 /\ Len(lgot[l]) = 1

\* C2: a listener registered when the read loop detected a read failure on a
\* connected session is sent only the wrapped error, and nil is sent only by
\* an explicit Disconnect in a session in which no read failure was detected.
C2_FailureNotifiesError ==
  /\ \A l \in hist.atFail : \A i \in 1..Len(hist.note[l]) :
       hist.note[l][i].val = "wrapped"
  /\ \A l \in Listeners : \A i \in 1..Len(hist.note[l]) :
       hist.note[l][i].val = "nil" =>
         hist.note[l][i].explicit /\ ~hist.note[l][i].fail

\* The handshake input is the connection-established envelope with a payload
\* that decodes.
GoodHandshake(in) ==
  in.dial /\ in.read /\ in.event = pusherConnEstablished /\ in.decodable

\* What C3 says of the result of a Connect call on input in.
HandshakeResultOk(c) ==
  /\ c.result = "ok" <=> GoodHandshake(c.in)
  /\ (c.in.dial /\ c.in.read /\ c.in.event = pusherError) => c.result = "protocol error"
  /\ (c.in.dial /\ c.in.read /\ c.in.event \notin {pusherError, pusherConnEstablished})
       => c.result = "unknown event type"

\* C3 as stated: Connect succeeds only on a good handshake, an error envelope
\* gives the protocol error, another envelope the unknown-event error, and
\* after a failed Connect the session is not connected and no loop was started.
C3_FailedConnectNotConnected ==
  [][ nCalls' # nCalls =>
        /\ HandshakeResultOk(hist'.lastConnect)
        /\ hist'.lastConnect.result # "ok" =>
             ~connected' /\ UNCHANGED << pc, hpc, sessions >> ]_vars

\* C3 amended: the same, but a failed Connect leaves the connected flag as it
\* was before the call (not connected if it was not connected) and starts no
\* loop; a successful Connect leaves it set and starts both loops.
C3_FailedConnectKeepsFlag ==
  [][ nCalls' # nCalls =>
        /\ HandshakeResultOk(hist'.lastConnect)
        /\ hist'.lastConnect.result # "ok" =>
             connected' = connected /\ UNCHANGED << pc, hpc, sessions >>
        /\ hist'.lastConnect.result = "ok" =>
             /\ connected'
             /\ sessions' = sessions + 1
             /\ pc'[sessions'] = "top" /\ hpc'[sessions'] = "top" ]_vars

\* A failed Connect was made on a connected session, which is still connected,
\* and a failed Connect of each kind is reachable through lastConnect.
C3_Witness ==
  /\ hist.lastConnect.result = "unknown event type"
  /\ hist.lastConnect.was
  /\ connected

\* C4 as stated: the flag rises once and falls once over the client's life and
\* is never set again after it fell.
C4_FlagChangesOnce ==
  /\ hist.nUp <= 1
  /\ hist.nDown <= 1
  /\ hist.nDown >= 1 => ~connected

\* C4 amended: the flag rises only in a Connect whose handshake succeeded and
\* falls only when Disconnect takes the session lock; between two rises there
\* is a fall.
C4_FlagChangesOnlyAtHandshakeAndDisconnect ==
  [][ /\ (~connected /\ connected') =>
           nCalls' = nCalls + 1 /\ GoodHandshake(hist'.lastConnect.in)
      /\ (connected /\ ~connected') =>
           mutex = NoLock /\ mutex' \in Procs /\ nCalls' = nCalls
      /\ hist'.nUp - hist'.nDown \in {0, 1} ]_vars

\* The flag was set, cleared by Disconnect, and set again by a second Connect.
C4_Witness == hist.nUp = 2 /\ hist.nDown = 1 /\ connected

\* C5: for every dispatched envelope, every channel bound to its name at the
\* dispatch has exactly one copy, in flight or received, and every other
\* channel has none; an envelope not yet dispatched has no copy.
C5_OneCopyPerListener ==
  \A i \in EnvIds, b \in BoundChans :
    pend[b][i] + dlv[b][i] =
      IF i \in hist.dispatched /\ b \in hist.boundAt[i] THEN 1 ELSE 0

\* An envelope was dispatched with two listeners bound and both received it.
C5_Witness ==
  \E i \in hist.dispatched :
    /\ Cardinality(hist.boundAt[i]) = 2
    /\ \A b \in hist.boundAt[i] : dlv[b][i] = 1

\* C6: after Unbind(E) with no channels and until the next Bind(E), no channel
\* is bound to E, and an envelope named E received and dispatched in that time
\* has no copy in flight or received.
C6_UnbindAllStopsDelivery ==
  /\ \A e \in EventNames : hist.unbound[e] => boundEvents[e] = {}
  /\ \A i \in hist.cleanAt, b \in BoundChans : pend[b][i] + dlv[b][i] = 0

\* A first envelope reached a bound listener; after Unbind a second envelope of
\* the same name was dispatched.
C6_Witness ==
  \E i \in hist.cleanAt, j \in hist.dispatched :
    /\ j < i
    /\ hist.envName[i] = hist.envName[j]
    /\ \E b \in hist.boundAt[j] : dlv[b][j] = 1

\* C7: in one session and with no Unsubscribe of the name, all Subscribe calls
\* of a name return one entry, and the registry was given one entry for it.
C7_SameEntry ==
  \A n \in ChannelNames :
    /\ Cardinality(hist.regd[n]) <= 1
    /\ Cardinality(hist.returned[n]) <= 1

\* C8: after a Subscribe of a name returned its entry together with an error,
\* and until an Unsubscribe of the name, that entry is the one registered under
\* the name.
C8_FailedEntryStays ==
  \A n \in ChannelNames :
    hist.failedRet[n] # 0 => subscribedChannels[n] = hist.failedRet[n]

\* C9: an Unsubscribe of a name with no entry returns no error and changes no
\* part of the program's state: nothing is sent, the registry is as it was.
C9_UnsubscribeUnknownIsNoop ==
  [][ (hist'.lastUnsub # hist.lastUnsub /\ ~hist'.lastUnsub.found) =>
        /\ hist'.lastUnsub.err = "nil"
        /\ UNCHANGED << clientV, lockV, mapsMade, routerV, subscribedChannels,
                        entries, timerV, netV, loopV, hbV, panicked, listenerV,
                        countV >>
        /\ \A s \in Subscribers :
             << spc'[s].pc, spc'[s].name, spc'[s].ch >> = << spc[s].pc, spc[s].name, spc[s].ch >> ]_vars

\* Unsubscribe was called for a name with no entry while another name has one,
\* and no unsubscribe envelope was sent.
C9_Witness ==
  /\ hist.lastUnsub.name # ""
  /\ ~hist.lastUnsub.found
  /\ \E n \in ChannelNames : n # hist.lastUnsub.name /\ subscribedChannels[n] # 0
  /\ sent.unsubscribe = 0

\* C10: while the session is connected, the pings sent in it are no more than
\* the expiries of its activity timer: one ping for an expiry, and no ping
\* without one.
C10_OnePingPerExpiry == connected => hist.sessPings <= hist.sessFires

\* C11: when traffic requested a reset while the activity timer was still
\* running, no ping is sent on that timer's expiry while the request is
\* pending (before the heartbeat loop took it to restart the timer).
C11_NoPingWhileResetPending ==
  [][ \A g \in G : hist'.pings[g] > hist.pings[g] => ~hist.early[g] ]_vars

\* C12: no envelope whose event name is one of the protocol's reserved names
\* is received by a channel made by Bind, whatever names the channels are
\* bound to.
C12_ReservedNeverDelivered ==
  \A i \in EnvIds, b \in BoundChans :
    hist.envName[i] \in ProtocolEvents => dlv[b][i] = 0

\* C13: a channel made by Bind receives the envelopes it is sent copies of in
\* the order the read loop read them: it has not received a later envelope
\* while the copy of an earlier one is still waiting to be received.
C13_DeliveryInArrivalOrder ==
  \A b \in BoundChans : \A i \in EnvIds, j \in EnvIds :
    (i < j /\ hist.envName[i] = hist.envName[j] /\ dlv[b][j] > 0) => pend[b][i] = 0

\* C14: with a bound listener that is never drained, in a session (cur) that
\* stays connected, the read loop always gets from an envelope it read back to
\* the top of its loop and on to the next Receive, the heartbeat loop takes
\* every pending reset request and every timer expiry, and every copy sent to
\* another listener is received.
C14_UndrainedListenerStallsNothing ==
  /\ (cur # 0 /\ pc[cur] \in {"reset", "dispatch"}) ~> (cur # 0 /\ pc[cur] = "wait")
  /\ (cur # 0 /\ resetCh[cur] = 1) ~> (cur # 0 /\ resetCh[cur] = 0)
  /\ (cur # 0 /\ timer[cur].c = 1) ~> (cur # 0 /\ timer[cur].c = 0)
  /\ \A i \in EnvIds, b \in BoundChans \ {Undrained} :
       (i \in hist.dispatched /\ b \in hist.boundAt[i]) ~> (dlv[b][i] = 1)

\* Two envelopes were dispatched to the undrained listener and to another one:
\* both copies of the undrained one are still waiting, the other listener
\* received both of its copies, and the heartbeat loop restarted the timer.
C14_Witness ==
  /\ pend[Undrained][1] = 1 /\ pend[Undrained][2] = 1
  /\ \E b \in BoundChans \ {Undrained} : dlv[b][1] = 1 /\ dlv[b][2] = 1
  /\ hist.restarts >= 1

\* C15: once the session of loops g is not connected, the read loop g and the
\* heartbeat loop g both end, unless the caller connects again first.
C15_LoopsTerminate ==
  \A g \in G :
    [](( pc[g] # "unborn" /\ ~connected) =>
         <>(connected \/ (pc[g] = "exit" /\ hpc[g] = "exit")))

\* The reset requests pending in the reset channels of sessions 1..n.
RECURSIVE PendingResets(_)
PendingResets(n) == IF n = 0 THEN 0 ELSE resetCh[n] + PendingResets(n - 1)

\* The heartbeat loops that took a request and have not yet restarted the timer.
Restarting == { g \in G : hpc[g] \in {"stop", "drain", "rearm"} }

\* C16: a reset channel never holds more than one request; a read loop about
\* to request a reset, and SendEvent, can always take their step (the request
\* does not block); every request is either accepted into an empty channel or
\* dropped, so the accepted ones are those pending or taken; and each request
\* the heartbeat loop takes is followed by one restart of the timer, however
\* many requests were made before it.
C16_ResetCoalesced ==
  /\ \A g \in G : resetCh[g] \in {0, 1}
  /\ \A g \in G : (Running /\ pc[g] = "reset") => ENABLED ListenReset(g)
  /\ (Running /\ nSends < MaxSends) => ENABLED SendEvent(TRUE)
  /\ hist.acc <= hist.req
  /\ hist.acc = hist.takes + PendingResets(MaxConnects)
  /\ hist.takes = hist.restarts + Cardinality(Restarting)

\* Two requests or more were made, all but one of them while one was pending,
\* and the heartbeat loop restarted the timer once.
C16_Witness ==
  /\ hist.req >= 2
  /\ hist.acc = 1
  /\ hist.restarts = 1
  /\ PendingResets(MaxConnects) = 0
  /\ Restarting = {}

\* C17: a read loop whose Receive failed on a transport that an explicit
\* Disconnect had closed returns at once: it does not go on to send to the
\* Errors channel, to record a disconnect cause or to call Disconnect.
C17_ClosedTransportIsCleanExit ==
  \A g \in G : hist.closedErr[g] => pc[g] \notin {"fail", "disc", "nlock", "loop"}

\* C18: the connection handle, the connected flag, the two registries, the
\* timer handle and the recorded disconnect cause change only in a step of a
\* context that takes the session write lock for it: never while another
\* context holds that lock.
C18_SharedStateUnderLock ==
  [][ << ws, connected, boundEvents, subscribedChannels, cur, disconnectErr >>'
        # << ws, connected, boundEvents, subscribedChannels, cur, disconnectErr >>
      => mutex = NoLock ]_vars

\* C19: after Unsubscribe removed the entry of a name, and until a Subscribe
\* of that name looks the name up or registers an entry, the name has no entry
\* in the registry, whatever state the removed entry was in; and a dispatch of
\* an envelope carrying that name in that time hands it to no entry, changes
\* no entry, sends nothing to Errors and does not panic.
C19_UnsubscribedGetsNothing ==
  /\ [](\A n \in ChannelNames : hist.removed[n] => subscribedChannels[n] = 0)
  /\ [][ \A g \in G :
           ( /\ pc[g] = "dispatch" /\ pc'[g] # "dispatch"
             /\ levent[g].channel \in ChannelNames
             /\ hist.removed[levent[g].channel] )
           => /\ hist'.handled = hist.handled
              /\ entries' = entries
              /\ errorsCh' = errorsCh
              /\ panicked' = "no" ]_vars

\* An entry that was subscribed was removed, and an envelope for a removed
\* name was dispatched after the removal, to no entry.
C19_Witness ==
  /\ hist.removedSubscribed
  /\ \E i \in hist.lateDispatch : \A e \in 1..Len(entries) : << e, i >> \notin hist.handled
  /\ \E n \in ChannelNames : hist.removed[n]

\* C20: with close listeners that can each accept one value, a Disconnect
\* that took the session lock always releases both locks again, so that no
\* operation or loop waiting for either lock waits for ever; the notification
\* lock is held only by the holder of the session lock; and when Disconnect
\* has returned and the session is not connected, the transport is closed.
C20_DisconnectReturns ==
  /\ (mutex # NoLock) ~> (mutex = NoLock /\ notifyMutex = NoLock)
  /\ [](notifyMutex # NoLock => mutex = notifyMutex)
  /\ []((mutex = NoLock /\ hist.nDown > 0 /\ ~connected) => ws \in connClosed)

\* An unbuffered and a buffered listener were both sent their value by a
\* Disconnect of the caller, which returned with the transport closed, and the
\* read loop, once it had the lock again, ended.
C20_Witness ==
  /\ mutex = NoLock /\ notifyMutex = NoLock
  /\ \E l \in Listeners, m \in Listeners :
       /\ lcap[l] = 0 /\ lcap[m] = 1
       /\ Len(hist.note[l]) = 1 /\ hist.note[l][1].explicit
       /\ Len(hist.note[m]) = 1 /\ hist.note[m][1].explicit
  /\ ws \in connClosed
  /\ \E g \in G : pc[g] = "exit"
====
